---- MODULE Spec2Model ----
(***************************************************************************)
(* CloudMart tagging cost governance dashboard (src/activity.py).          *)
(*                                                                         *)
(* The dashboard is a Streamlit script: every interaction re-runs the      *)
(* whole script top to bottom.  A state of the model is the state at the   *)
(* end of one script run: the DataFrame objects the run built, the         *)
(* session's st.session_state, and what the run rendered.                  *)
(*                                                                         *)
(* A DataFrame is a sequence of rows; a row is a function from column      *)
(* names to cell values.  Text cells are strings, NA is a missing cell,    *)
(* Cost and TagCompleteness are integers.                                  *)
(***************************************************************************)
EXTENDS Integers, Sequences, FiniteSets, TLC

VARIABLES
    cache,          \* the table load_data() returns (st.cache_data)
    heap,           \* the DataFrame objects of the latest run, by object
    env,            \* the script's names df, original_df, remediated -> object
    session_state,  \* st.session_state: holds "remediated" or nothing
    edits,          \* what the user did to each row of the data editor
    pressed,        \* st.button("Apply Remediation & Recalculate") in the run
    error,          \* the run ended in an uncaught exception
    csv_untagged,   \* untagged_resources.csv of the run
    metrics,        \* the before/after numbers of the run, or <<>>
    changed,        \* the "changed status" table of the run
    report,         \* short_report.md of the run, or <<>>
    sel,            \* the three multiselect filters of the run
    filtered,       \* the filtered table of the run
    lowest          \* the "lowest Tag Completeness" table of the run

vars == <<cache, heap, env, session_state, edits, pressed, error,
          csv_untagged, metrics, changed, report, sel, filtered, lowest>>

----------------------------------------------------------------------------
(* Bounds of the model *)

\* rows of the loaded table in the remediation specification
MaxRows == 2
\* rows of the loaded table in the filter specification
MaxFilterRows == 2
\* rows of the loaded table in the sort specification
MaxSortRows == 6

----------------------------------------------------------------------------
(* Cells, columns, rows *)

NA == "<NA>"

isna(v) == v = NA

\* Series.fillna(d), one cell
fillna(v, d) == IF isna(v) THEN d ELSE v

TAG_FIELDS == <<"Department", "Project", "Environment", "Owner", "CostCenter", "CreatedBy">>

\* columns of the table load_data returns (a file with a Cost column)
LoadedCols == <<"AccountID", "ResourceID", "Service", "Region", "Department", "Project",
                "Environment", "Owner", "CostCenter", "CreatedBy", "Tagged", "Cost">>

\* columns of df once the script has added its two derived columns
DfCols == LoadedCols \o <<"Tagged_filled", "TagCompleteness">>

Range(s) == {s[i] : i \in 1..Len(s)}

RECURSIVE SumSeq(_)
SumSeq(s) == IF s = <<>> THEN 0 ELSE Head(s) + SumSeq(Tail(s))

\* a row with column c set to v (the column is added when it is new)
SetCol(row, c, v) == [k \in DOMAIN row \cup {c} |-> IF k = c THEN v ELSE row[k]]

\* DataFrame.drop(columns=[c], errors="ignore"), one row
DropCol(row, c) == [k \in DOMAIN row \ {c} |-> row[k]]

\* 3.1 Tag completeness score
completeness_score(row) ==
    SumSeq([i \in 1..Len(TAG_FIELDS) |-> IF isna(row[TAG_FIELDS[i]]) THEN 0 ELSE 1])

\* df["Tagged_filled"] = df["Tagged"].fillna("No")
WithTaggedFilled(t) ==
    [i \in 1..Len(t) |-> SetCol(t[i], "Tagged_filled", fillna(t[i]["Tagged"], "No"))]

\* df["TagCompleteness"] = df.apply(completeness_score, axis=1)
WithTagCompleteness(t) ==
    [i \in 1..Len(t) |-> SetCol(t[i], "TagCompleteness", completeness_score(t[i]))]

\* untag_count: the "No" entry of df["Tagged"].fillna("No").value_counts()
untag_count(t) == Cardinality({i \in 1..Len(t) : fillna(t[i]["Tagged"], "No") = "No"})

\* t[t["Tagged_filled"] == "No"]
UntaggedRows(t) == SelectSeq(t, LAMBDA r : r["Tagged_filled"] = "No")

\* t[t["Tagged_filled"] == "No"]["Cost"].sum()
untagged_cost(t) == SumSeq([i \in 1..Len(UntaggedRows(t)) |-> UntaggedRows(t)[i]["Cost"]])

\* t["Cost"].sum()
total_cost(t) == SumSeq([i \in 1..Len(t) |-> t[i]["Cost"]])

----------------------------------------------------------------------------
(* DataFrame objects *)

Objs == {"df", "original_df", "remediated"}

\* an object that holds no frame (yet)
NoFrame == <<>>

\* a faulty variant: no copy is made: the name is bound to the source object itself
DfCopyAlias(src, new) == src

\* df.copy(): the object the result lives in.  A copy is a new object `new`;
\* the frame it holds is that of `src` at the time of the call.
DfCopy(src, new) == new

\* the heap after  <name> = <src>.copy()
AfterCopy(h, src, new) == [h EXCEPT ![DfCopy(src, new)] = h[src]]

----------------------------------------------------------------------------
(* 3.4 / 3.5 the untagged list and untagged_resources.csv *)

\* the nine columns of the on-screen "List of untagged resources"
UntaggedListCols == <<"AccountID", "ResourceID", "Service", "Region", "Department",
                      "Project", "Environment", "Owner", "Cost">>

\* a faulty variant: the rows whose raw Tagged cell is "No": a missing Tagged is not counted
UntaggedByRawTag(df) == SelectSeq(df, LAMBDA r : r["Tagged"] = "No")

\* untagged_df = df[df["Tagged_filled"] == "No"].copy()
untagged_df(df) == UntaggedRows(df)

\* the integer columns of df
NumericCols == {"Cost", "TagCompleteness"}

\* one cell of column c as to_csv writes it: a number is in decimal, a missing cell is empty
CsvCell(c, v) == IF c \in NumericCols THEN ToString(v) ELSE IF isna(v) THEN "" ELSE v

\* DataFrame.to_csv(index=False) of a frame with columns cols:
\* the header line, then one line per row
to_csv(t, cols) ==
    <<cols>> \o [i \in 1..Len(t) |-> [k \in 1..Len(cols) |-> CsvCell(cols[k], t[i][cols[k]])]]

----------------------------------------------------------------------------
(* Task Set 5: the data editor and Apply Remediation *)

\* What the user does to one row of the editor: nothing, type a department,
\* type a department and an owner, or overwrite the row's ResourceID cell.
\* (Every cell of the editor is editable, and rows can be added and deleted;
\* these four stand for them.)
EditKinds == {"keep", "dept", "fill", "rekey"}

EditRow(row, kind) ==
    CASE kind = "dept"     -> SetCol(row, "Department", "Ops")
      [] kind = "fill"     -> SetCol(SetCol(row, "Department", "Eng"), "Owner", "Bob")
      [] kind = "rekey"    -> SetCol(row, "ResourceID", "R1")
      [] OTHER             -> row

\* editable_df = st.data_editor(untagged_df.drop(columns=["TagCompleteness"]), num_rows="dynamic")
\* after the user's edits ed, one per row shown
data_editor(t, ed) ==
    [i \in 1..Len(t) |-> EditRow(DropCol(t[i], "TagCompleteness"), ed[i])]

\* DataFrame.to_dict(orient="index") raises ValueError unless the index is unique
IndexIsUnique(t) ==
    \A i, j \in 1..Len(t) : t[i]["ResourceID"] = t[j]["ResourceID"] => i = j

\* remediated.loc[remediated["ResourceID"] == rid, col] = val   for every col of changes
LocAssign(t, rid, changes) ==
    [i \in 1..Len(t) |->
        IF t[i]["ResourceID"] = rid
        THEN [k \in DOMAIN t[i] \cup DOMAIN changes |->
                 IF k \in DOMAIN changes THEN changes[k] ELSE t[i][k]]
        ELSE t[i]]

\* for rid, changes in edited_map.items(): ...   (edited_map keeps the editor's row order)
RECURSIVE ApplyEdits(_, _)
ApplyEdits(t, edited) ==
    IF edited = <<>> THEN t
    ELSE ApplyEdits(LocAssign(t, Head(edited)["ResourceID"], DropCol(Head(edited), "ResourceID")),
                    Tail(edited))

\* a faulty variant: the score is not recomputed after the edits
KeepCompleteness(t) == t

\* remediated["TagCompleteness"] = remediated.apply(lambda r: sum(...), axis=1)
RecomputeCompleteness(t) == WithTagCompleteness(t)

\* the lambda of line 198, one row
ResolvedStatus(r) ==
    IF ~isna(r["Department"]) /\ ~isna(r["Owner"]) THEN "Yes"
    ELSE IF ~isna(r["Tagged_filled"]) THEN r["Tagged_filled"] ELSE "No"

\* remediated["Tagged_filled"] = remediated.apply(lambda r: ..., axis=1)
RecomputeTagged(t) == [i \in 1..Len(t) |-> SetCol(t[i], "Tagged_filled", ResolvedStatus(t[i]))]

RECURSIVE Concat(_)
Concat(ss) == IF ss = <<>> THEN <<>> ELSE Head(ss) \o Concat(Tail(ss))

\* one row of the merge result, cut to the four columns shown
MergedRow(l, before) ==
    [ResourceID |-> l["ResourceID"], Tagged_filled_before |-> before,
     Tagged_filled_after |-> l["Tagged_filled"], Cost |-> l["Cost"]]

\* a faulty variant: a one-to-one lookup: only the first row of `right` with the key joins
MatchFirstOnly(l, right) ==
    LET m == SelectSeq(right, LAMBDA r : r["ResourceID"] = l["ResourceID"])
    IN  IF m = <<>> THEN m ELSE <<m[1]>>

\* the rows of `right` that join row l: equal ResourceID, in right's order
MatchRows(l, right) == SelectSeq(right, LAMBDA r : r["ResourceID"] = l["ResourceID"])

\* remediated.merge(df[["ResourceID", "Tagged_filled"]], on="ResourceID", how="left",
\*                  suffixes=("_after", "_before"))
Merge(left, right) ==
    Concat([i \in 1..Len(left) |->
        LET m == MatchRows(left[i], right)
        IN  IF m = <<>> THEN <<MergedRow(left[i], NA)>>
            ELSE [j \in 1..Len(m) |-> MergedRow(left[i], m[j]["Tagged_filled"])]])

\* changed[changed["Tagged_filled_after"] != changed["Tagged_filled_before"]]
Changed(remediated, df) ==
    SelectSeq(Merge(remediated, df),
              LAMBDA r : r["Tagged_filled_after"] # r["Tagged_filled_before"])

----------------------------------------------------------------------------
(* Deliverables: the short report *)

\* f"{a / b * 100:.2f}" in hundredths of a percent (round half to even), 0 when b is 0
Pct(a, b) ==
    IF b = 0 THEN 0
    ELSE LET q == (a * 10000) \div b
             r == (a * 10000) % b
         IN  IF 2 * r > b THEN q + 1
             ELSE IF 2 * r = b THEN q + (q % 2)
             ELSE q

\* the numbers of short_report.md (its department table and fixed text are not modelled)
Report(df, r) ==
    [total_resources  |-> Len(df),
     untag_pct        |-> Pct(untag_count(df), Len(df)),
     untagged_cost    |-> untagged_cost(df),
     tot              |-> total_cost(r),
     untag_cost_after |-> untagged_cost(r),
     untag_pct_after  |-> Pct(untagged_cost(r), total_cost(r))]

----------------------------------------------------------------------------
(* 3.2 the five resources with the lowest Tag Completeness *)

HeadN == 5

\* DataFrame.head(n)
head(t, n) == SubSeq(t, 1, IF Len(t) < n THEN Len(t) ELSE n)

RECURSIVE Perms(_)
Perms(S) == IF S = {} THEN {<<>>}
            ELSE UNION {{<<x>> \o q : q \in Perms(S \ {x})} : x \in S}

\* df.sort_values("TagCompleteness"): pandas sorts with kind="quicksort", which is
\* not a stable sort; the row orders it may produce are the ascending ones, with
\* tied rows in whatever order the numpy build's sort leaves them.
\* the orderings of 1..n, for every table length of the sort specification
Orderings == [n \in 0..MaxSortRows |-> Perms(1..n)]

sort_values(t) ==
    {[i \in 1..Len(t) |-> t[q[i]]] :
        q \in {q \in Orderings[Len(t)] :
                 \A i \in 1..(Len(t) - 1) :
                     t[q[i]]["TagCompleteness"] <= t[q[i + 1]]["TagCompleteness"]}}

\* the columns of the "lowest Tag Completeness" table
LowestCols == {"ResourceID", "Service", "TagCompleteness", "Cost", "Tagged_filled"}

\* t[[...]]: the rows of t cut to the columns cols
Project(t, cols) == [i \in 1..Len(t) |-> [k \in cols |-> t[i][k]]]

\* df.sort_values("TagCompleteness").head(5)[[...]]: the tables the build may show
lowest_completeness(t) == {Project(head(u, HeadN), LowestCols) : u \in sort_values(t)}

----------------------------------------------------------------------------
(* Task Set 4: the three filters *)

\* options=sorted(df[col].dropna().unique())
Options(t, col) == {t[i][col] : i \in 1..Len(t)} \ {NA}

\* if sel: filtered = filtered[filtered[col].isin(sel)]
FilterStep(t, col, chosen) ==
    IF chosen = {} THEN t ELSE SelectSeq(t, LAMBDA r : r[col] \in chosen)

\* a faulty variant: the department multiselect is ignored
FilterWithoutDepartment(t, sel_service, sel_region, sel_department) ==
    FilterStep(FilterStep(t, "Service", sel_service), "Region", sel_region)

\* filtered = df.copy(), then the three restrictions in the script's order
filter_by(t, sel_service, sel_region, sel_department) ==
    FilterStep(FilterStep(FilterStep(t, "Service", sel_service), "Region", sel_region),
               "Department", sel_department)

----------------------------------------------------------------------------
(* One run of the script *)

\* st.session_state as a dictionary
EmptySession == [k \in {} |-> NoFrame]

HasRemediated(ss) == "remediated" \in DOMAIN ss

\* The script from its top to the end of Task Set 3 and the data editor:
\* the heap with df scored and original_df copied before the derived columns.
LoadAndScore(c) ==
    LET h0 == [o \in Objs |-> IF o = "df" THEN c ELSE NoFrame]      \* df = load_data()
        h1 == AfterCopy(h0, "df", "original_df")                     \* original_df = df.copy(deep=True)
        h2 == [h1 EXCEPT !["df"] = WithTaggedFilled(@)]
    IN  [h2 EXCEPT !["df"] = WithTagCompleteness(@)]

\* The body of  if st.button("Apply Remediation & Recalculate"):
\* h is the heap on entry, before_count the run's untag_count, ed the user's edits.
ApplyRemediation(h, before_count, ed) ==
    LET rem  == DfCopy("df", "remediated")                           \* remediated = df.copy()
        h1   == AfterCopy(h, "df", "remediated")
        editable_df == data_editor(untagged_df(h["df"]), ed)
        before_cost == untagged_cost(h["df"])
    IN  IF ~IndexIsUnique(editable_df)
        THEN [raised |-> TRUE, heap |-> h1, rem |-> rem, metrics |-> <<>>, changed |-> <<>>]
        ELSE LET h2 == [h1 EXCEPT ![rem] = ApplyEdits(@, editable_df)]
                 h3 == [h2 EXCEPT ![rem] = RecomputeCompleteness(@)]
                 h4 == [h3 EXCEPT ![rem] = RecomputeTagged(@)]
             IN  [raised  |-> FALSE,
                  heap    |-> h4,
                  rem     |-> rem,
                  metrics |-> <<[before_untag_cost  |-> before_cost,
                                 after_untag_cost   |-> untagged_cost(h4[rem]),
                                 before_untag_count |-> before_count,
                                 after_untag_count  |->
                                     Cardinality({i \in 1..Len(h4[rem]) :
                                                     h4[rem][i]["Tagged_filled"] = "No"})]>>,
                  changed |-> Changed(h4[rem], h4["df"])]

\* The whole script run: c is the cached table, ss the session state on entry,
\* p whether the button was pressed, ed the user's edits in the editor.
Script(c, ss, p, ed) ==
    LET h    == LoadAndScore(c)
        csv  == to_csv(untagged_df(h["df"]), DfCols)
        a    == ApplyRemediation(h, untag_count(c), ed)
        hEnd == IF p THEN a.heap ELSE h
        ssEnd == IF p /\ ~a.raised
                 THEN [k \in {"remediated"} |-> a.heap[a.rem]]
                 ELSE ss
        raised == p /\ a.raised
    IN  [heap          |-> hEnd,
         env           |-> [df |-> "df", original_df |-> DfCopy("df", "original_df"),
                            remediated |-> IF p THEN a.rem ELSE "none"],
         session_state |-> ssEnd,
         error         |-> raised,
         csv_untagged  |-> csv,
         metrics       |-> IF p THEN a.metrics ELSE <<>>,
         changed       |-> IF p THEN a.changed ELSE <<>>,
         report        |-> IF ~raised /\ HasRemediated(ssEnd)
                           THEN <<Report(hEnd["df"], ssEnd["remediated"])>>
                           ELSE <<>>]

\* the user's possible edits to the rows the editor shows: tag edits of any of
\* the rows, or one ResourceID cell overwritten and nothing else
EditChoices(c) ==
    LET n == Len(untagged_df(LoadAndScore(c)["df"]))
    IN  [1..n -> EditKinds \ {"rekey"}]
            \cup {[i \in 1..n |-> IF i = k THEN "rekey" ELSE "keep"] : k \in 1..n}

\* the end of a run of the script, all but the filter and sort sections
RunScript(p, ed) ==
    \E s \in {Script(cache, session_state, p, ed)} :
        /\ heap' = s.heap
        /\ env' = s.env
        /\ session_state' = s.session_state
        /\ edits' = ed
        /\ pressed' = p
        /\ error' = s.error
        /\ csv_untagged' = s.csv_untagged
        /\ metrics' = s.metrics
        /\ changed' = s.changed
        /\ report' = s.report
        /\ cache' = cache

\* the filter section of a run whose multiselects hold s
RunFilter(s) ==
    /\ sel' = s
    /\ filtered' = filter_by(LoadAndScore(cache)["df"], s[1], s[2], s[3])

\* a re-run caused by any interaction other than the Apply button or a filter
Rerun == RunScript(FALSE, <<>>) /\ RunFilter(sel) /\ lowest' = lowest

\* a re-run caused by pressing "Apply Remediation & Recalculate"
Apply == \E ed \in EditChoices(cache) :
            RunScript(TRUE, ed) /\ RunFilter(sel) /\ lowest' = lowest

----------------------------------------------------------------------------
(* The loaded tables *)

Row(rid, svc, reg, dept, proj, envt, owner, cc, cb, tagged, cost) ==
    [AccountID |-> "A1", ResourceID |-> rid, Service |-> svc, Region |-> reg,
     Department |-> dept, Project |-> proj, Environment |-> envt, Owner |-> owner,
     CostCenter |-> cc, CreatedBy |-> cb, Tagged |-> tagged, Cost |-> cost]

ResourceIDs == {"R1", "R2"}

\* fully tagged; untagged with no tags; untagged with some tags; tagged but no owner
RemediationRows ==
    UNION {{Row(rid, "EC2", "us-east-1", "Eng", "Web", "Prod", "Al", "CC1", "ci", "Yes", 50),
            Row(rid, "EC2", "us-east-1", NA, NA, NA, NA, NA, NA, NA, 100),
            Row(rid, "EC2", "us-east-1", "Eng", "Web", NA, NA, NA, NA, "No", 75),
            Row(rid, "EC2", "us-east-1", "Eng", NA, NA, NA, NA, NA, "Yes", 25)}
           : rid \in ResourceIDs}

SeqsUpTo(S, n) == UNION {[1..k -> S] : k \in 1..n}

NoSel == <<{}, {}, {}>>

\* the state at the end of the session's first run over the loaded table c
\* (no button is pressed and no filter is chosen in it); low is what the
\* lowest-completeness section showed, <<>> where that section is not tracked
FirstRun(c, low) ==
    \E s \in {Script(c, EmptySession, FALSE, <<>>)} :
        /\ cache = c
        /\ heap = s.heap
        /\ env = s.env
        /\ session_state = s.session_state
        /\ edits = <<>>
        /\ pressed = FALSE
        /\ error = s.error
        /\ csv_untagged = s.csv_untagged
        /\ metrics = s.metrics
        /\ changed = s.changed
        /\ report = s.report
        /\ sel = NoSel
        /\ filtered = filter_by(s.heap["df"], {}, {}, {})
        /\ lowest = low

----------------------------------------------------------------------------
(* The remediation session: the filters are left empty, and the               *)
(* lowest-completeness section is not tracked.                                *)

Init == \E c \in SeqsUpTo(RemediationRows, MaxRows) : FirstRun(c, <<>>)

Next == Rerun \/ Apply

Spec == Init /\ [][Next]_vars

----------------------------------------------------------------------------
(* The filter section: every change of one multiselect re-runs the script.    *)

FilterRows ==
    {Row("R1", svc, reg, dept, NA, NA, NA, NA, NA, "Yes", 10) :
        svc \in {"EC2", "S3"}, reg \in {"us-east-1", "eu-west-1"}, dept \in {NA, "Eng"}}

FilterCols == <<"Service", "Region", "Department">>

\* the user adds or removes one option v of the k-th multiselect
Toggle(k, v) ==
    /\ RunScript(FALSE, <<>>)
    /\ RunFilter([sel EXCEPT ![k] = IF v \in @ THEN @ \ {v} ELSE @ \cup {v}])
    /\ lowest' = lowest

InitFilter == \E c \in SeqsUpTo(FilterRows, MaxFilterRows) : FirstRun(c, <<>>)

NextFilter ==
    \E k \in 1..3 : \E v \in Options(LoadAndScore(cache)["df"], FilterCols[k]) : Toggle(k, v)

SpecFilter == InitFilter /\ [][NextFilter]_vars

----------------------------------------------------------------------------
(* The lowest-completeness section.  Which of the orders sort_values allows    *)
(* the build produces is fixed by the build and the table: the first run takes *)
(* one of them, and a re-run sorts the same table and shows the same rows.     *)

SortIds == <<"R1", "R2", "R3", "R4", "R5", "R6", "R7", "R8">>

\* row i of a table: resource i, either without any tag or fully tagged
SortRow(i, full) ==
    IF full THEN Row(SortIds[i], "EC2", "us-east-1", "Eng", "Web", "Prod", "Al", "CC1", "ci", "Yes", 10)
    ELSE Row(SortIds[i], "EC2", "us-east-1", NA, NA, NA, NA, NA, NA, "No", 10)

SortTables ==
    UNION {{[i \in 1..n |-> SortRow(i, f[i])] : f \in [1..n -> BOOLEAN]} : n \in 1..MaxSortRows}

InitSort ==
    \E c \in SortTables : \E d \in {LoadAndScore(c)["df"]} :
        \E low \in lowest_completeness(d) : FirstRun(c, low)

RerunSort ==
    /\ RunScript(FALSE, <<>>)
    /\ RunFilter(sel)
    /\ lowest' = lowest

SpecSort == InitSort /\ [][RerunSort]_vars

----------------------------------------------------------------------------
(* The tables of a state *)

\* the baseline table df, scored
Baseline == heap[env.df]

\* the retained copy exported as original.csv
Original == heap[env.original_df]

\* the button was pressed and the handler ran to its end
Applied == pressed /\ ~error

\* the table the run's handler built (meaningful when pressed)
RunRemediated == heap[env.remediated]

\* the rows the pressed run read from the editor
Editable == data_editor(untagged_df(Baseline), edits)

\* the edits of the pressed run changed tag fields only
TagEditsOnly == \A k \in 1..Len(edits) : edits[k] \in {"keep", "dept", "fill"}

Present(r, f) == r[f] # NA

Count(sq, x) == Cardinality({k \in 1..Len(sq) : sq[k] = x})

UniqueIds(t) == \A i, j \in 1..Len(t) : t[i]["ResourceID"] = t[j]["ResourceID"] => i = j

----------------------------------------------------------------------------
(* Claims *)

\* C1: after apply_remediation every record with department and owner both
\* present has tagged_resolved "Yes"; every other record has the tagged_resolved
\* it had in the baseline table.
C1_ResolvedRule ==
    Applied =>
        \A i \in 1..Len(RunRemediated) :
            IF Present(RunRemediated[i], "Department") /\ Present(RunRemediated[i], "Owner")
            THEN RunRemediated[i]["Tagged_filled"] = "Yes"
            ELSE RunRemediated[i]["Tagged_filled"] = Baseline[i]["Tagged_filled"]

\* the fields the user changed in an editor row
Named(kind) ==
    CASE kind = "dept" -> {"Department"}
      [] kind = "fill" -> {"Department", "Owner"}
      [] OTHER         -> {}

\* C2: a pressed Apply whose edits change tag fields yields a remediated table in
\* which every record carries, in each field an edit for its resource_id names,
\* the edit's value (all records sharing the id), and keeps its baseline value in
\* every field no edit for its id names.
C2_BroadcastEdit ==
    (pressed /\ TagEditsOnly) =>
        /\ ~error
        /\ Len(RunRemediated) = Len(Baseline)
        /\ \A i \in 1..Len(Baseline) : \A c \in Range(LoadedCols) :
              LET hits == {k \in 1..Len(Editable) :
                              /\ Editable[k]["ResourceID"] = Baseline[i]["ResourceID"]
                              /\ c \in Named(edits[k])}
              IN  IF hits = {}
                  THEN RunRemediated[i][c] = Baseline[i][c]
                  ELSE \A k \in hits : RunRemediated[i][c] = Editable[k][c]

\* C3: no run changes the baseline table or the retained original copy: both
\* hold the loaded records (the baseline with its two derived columns) in every
\* run, whatever was remediated.
C3_BaselineNeverMutated ==
    [][/\ Baseline' = Baseline
       /\ Original' = Original
       /\ Original' = cache'
       /\ Project(Baseline', Range(LoadedCols)) = cache']_vars

\* a run remediated, and its table differs from the baseline
C3_Witness == Applied /\ RunRemediated # Baseline /\ HasRemediated(session_state)

\* the (remediated record, baseline record) pairs with equal resource_id and
\* different tagged_resolved
FlippedPairs ==
    {p \in (1..Len(RunRemediated)) \X (1..Len(Baseline)) :
        /\ RunRemediated[p[1]]["ResourceID"] = Baseline[p[2]]["ResourceID"]
        /\ RunRemediated[p[1]]["Tagged_filled"] # Baseline[p[2]]["Tagged_filled"]}

PairEntry(p) ==
    [ResourceID |-> RunRemediated[p[1]]["ResourceID"],
     Tagged_filled_before |-> Baseline[p[2]]["Tagged_filled"],
     Tagged_filled_after |-> RunRemediated[p[1]]["Tagged_filled"],
     Cost |-> RunRemediated[p[1]]["Cost"]]

\* C4: the changed list holds one entry (resource_id, before, after, cost) per
\* pair of a remediated and a baseline record with equal resource_id and
\* different tagged_resolved, and nothing else; with unique resource_ids that is
\* one entry per record whose status flipped.
C4_ChangedIsJoin ==
    Applied =>
        /\ Len(changed) = Cardinality(FlippedPairs)
        /\ \A k \in 1..Len(changed) : \E p \in FlippedPairs : changed[k] = PairEntry(p)
        /\ \A p \in FlippedPairs :
              Count(changed, PairEntry(p)) = Cardinality({q \in FlippedPairs : PairEntry(q) = PairEntry(p)})
        /\ UniqueIds(Baseline) =>
              Len(changed) = Cardinality({i \in 1..Len(Baseline) :
                  RunRemediated[i]["Tagged_filled"] # Baseline[i]["Tagged_filled"]})

\* a duplicated resource_id put two entries for one id into the changed list
C4_Witness ==
    /\ Applied
    /\ \E k, l \in 1..Len(changed) : k # l /\ changed[k]["ResourceID"] = changed[l]["ResourceID"]

\* the tables the program holds at the end of a run
HeldTables ==
    {Baseline} \cup {session_state[k] : k \in DOMAIN session_state}
               \cup (IF pressed THEN {RunRemediated} ELSE {})

TagCount(r) == Cardinality({f \in Range(TAG_FIELDS) : Present(r, f)})

\* C5: in the baseline and in every remediated table each record's
\* tag_completeness is in 0..6 and is the number of its six tag fields that are
\* present; the editor offers no tag_completeness cell.
C5_CompletenessCount ==
    /\ \A t \in HeldTables : \A i \in 1..Len(t) :
          /\ t[i]["TagCompleteness"] \in 0..6
          /\ t[i]["TagCompleteness"] = TagCount(t[i])
    /\ pressed => \A k \in 1..Len(Editable) : "TagCompleteness" \notin DOMAIN Editable[k]

\* a remediation changed some record's tag_completeness
C5_Witness ==
    /\ Applied
    /\ \E i \in 1..Len(Baseline) :
          RunRemediated[i]["TagCompleteness"] # Baseline[i]["TagCompleteness"]

\* the data lines of untagged_resources.csv
CsvLines == Tail(csv_untagged)

\* a record as a line of a csv with columns cols
LineOf(r, cols) == [k \in 1..Len(cols) |-> CsvCell(cols[k], r[cols[k]])]

\* the baseline records whose tagged_resolved is "No", by position
UntaggedAt == {i \in 1..Len(Baseline) : Baseline[i]["Tagged_filled"] = "No"}

RowsAreUntagged(cols) ==
    /\ Len(CsvLines) = Cardinality(UntaggedAt)
    /\ \A k \in 1..Len(CsvLines) :
          Count(CsvLines, CsvLines[k])
              = Cardinality({i \in UntaggedAt : LineOf(Baseline[i], cols) = CsvLines[k]})

\* C6 as stated: untagged_resources.csv holds exactly the baseline records whose
\* tagged_resolved is "No", in the nine columns account, resource id, service,
\* region, department, project, environment, owner, cost.
C6_FixedColumns ==
    /\ csv_untagged[1] = UntaggedListCols
    /\ RowsAreUntagged(UntaggedListCols)

\* C6 amended: untagged_resources.csv holds exactly the baseline records whose
\* tagged_resolved is "No", in every column of the scored baseline table (the
\* loaded columns, Tagged_filled and TagCompleteness).
C6_UntaggedCsvAllColumns ==
    /\ csv_untagged[1] = DfCols
    /\ RowsAreUntagged(DfCols)

\* the file has a line for a record whose Tagged cell is missing, and the
\* baseline has a tagged record that is left out
C6_Witness ==
    /\ \E i \in UntaggedAt : Baseline[i]["Tagged"] = NA
    /\ Cardinality(UntaggedAt) < Len(Baseline)
    /\ Len(CsvLines) > 0

\* the position in the baseline of the record shown in row k of lowest
PosOf(k) == CHOOSE i \in 1..Len(Baseline) : Baseline[i]["ResourceID"] = lowest[k]["ResourceID"]

\* C7: the lowest-completeness table is the first five records in ascending
\* tag_completeness order, records of equal tag_completeness in their order in
\* the table.
C7_StableTieBreak ==
    /\ Len(lowest) = (IF Len(Baseline) < HeadN THEN Len(Baseline) ELSE HeadN)
    /\ \A k, l \in 1..Len(lowest) :
          k < l => \/ lowest[k]["TagCompleteness"] < lowest[l]["TagCompleteness"]
                   \/ /\ lowest[k]["TagCompleteness"] = lowest[l]["TagCompleteness"]
                      /\ PosOf(k) < PosOf(l)
    /\ \A i \in 1..Len(Baseline) :
          (\A k \in 1..Len(lowest) : PosOf(k) # i) =>
              \A k \in 1..Len(lowest) :
                  \/ lowest[k]["TagCompleteness"] < Baseline[i]["TagCompleteness"]
                  \/ /\ lowest[k]["TagCompleteness"] = Baseline[i]["TagCompleteness"]
                     /\ PosOf(k) < i

\* a record passes the multiselects s when it is a member of every non-empty one
Passes(r, s) ==
    /\ s[1] # {} => r["Service"] \in s[1]
    /\ s[2] # {} => r["Region"] \in s[2]
    /\ s[3] # {} => r["Department"] \in s[3]

\* C8: the filtered table is exactly the baseline records that are members of
\* every non-empty multiselect, in table order, and applying the three
\* restrictions one after another gives it in any order.
C8_FilterComposition ==
    /\ filtered = SelectSeq(Baseline, LAMBDA r : Passes(r, sel))
    /\ \A q \in Perms(1..3) :
          filtered = FilterStep(FilterStep(FilterStep(Baseline,
                         FilterCols[q[1]], sel[q[1]]), FilterCols[q[2]], sel[q[2]]),
                         FilterCols[q[3]], sel[q[3]])

\* all three multiselects are set, and they keep some records and drop others
C8_Witness ==
    /\ \A k \in 1..3 : sel[k] # {}
    /\ filtered # <<>>
    /\ Len(filtered) < Len(Baseline)

\* C9: in every run the short report is produced exactly when the session
\* holds a remediated table, and it is computed from that table.
C9_ReportIffPresent ==
    /\ (report # <<>>) <=> HasRemediated(session_state)
    /\ HasRemediated(session_state) =>
          report = <<Report(Baseline, session_state["remediated"])>>

\* C10: a remediation whose edits change tag fields only leaves no record that
\* was "Yes" in the baseline at "No", keeps the number of records, and does not
\* raise the untagged count.
C10_NeverWorse ==
    (Applied /\ TagEditsOnly) =>
        /\ Len(RunRemediated) = Len(Baseline)
        /\ \A i \in 1..Len(Baseline) :
              Baseline[i]["Tagged_filled"] = "Yes" => RunRemediated[i]["Tagged_filled"] # "No"
        /\ metrics[1].after_untag_count <= metrics[1].before_untag_count

====
